---------------------------- MODULE Spec2Model ----------------------------
(***************************************************************************)
(* Model of src/main.py: a Dash application that downloads a price table   *)
(* (get_stock_data), keeps it in the dcc.Store 'data-store' (update_data)  *)
(* and renders two charts and a statistics table from it (update_charts).  *)
(*                                                                         *)
(* Conventions.                                                            *)
(*  - A Python string is a sequence of atoms: a word ("Open", "AAPL"), the *)
(*    separator "_" or the blank " ".  join, strip and split act on that   *)
(*    sequence, so 'Open_AAPL' is <<"Open","_","AAPL">>.                   *)
(*  - A pandas DataFrame is a record: columns (labels, in order), multi    *)
(*    (columns are a MultiIndex: every label is a tuple of strings),       *)
(*    index_name, index (row labels) and data (rows, values by position).  *)
(*  - Prices are integers in units of 0.01; NaN / None / JSON null is the  *)
(*    value NaN.  Dates are day numbers.                                   *)
(*  - The user-facing messages are transliterated to ASCII.                *)
(***************************************************************************)
EXTENDS Integers, Sequences, FiniteSets, TLC

VARIABLES
    ticker,          \* 'ticker-selector'.value
    start_date,      \* 'date-picker'.start_date
    end_date,        \* 'date-picker'.end_date
    n_clicks,        \* 'refresh-button'.n_clicks
    n_intervals,     \* 'auto-refresh'.n_intervals
    store,           \* 'data-store'.data
    error_message,   \* 'error-message'.children
    price_chart,     \* 'price-chart'.figure
    volume_chart,    \* 'volume-chart'.figure
    stats_container, \* 'stats-container'.children
    pc,              \* the callback that runs next, or "idle"
    raw,             \* SpecNormalize: what yf.download gives get_stock_data
    result,          \* SpecNormalize: what get_stock_data returned
    prevStore,       \* 'data-store'.data before the last update_data
    lastFetch,       \* how the last update_data ended
    nUpdateData,     \* update_data calls so far
    nUpdateCharts,   \* update_charts calls so far
    nEdits           \* ticker and date changes so far

vars == <<ticker, start_date, end_date, n_clicks, n_intervals, store,
          error_message, price_chart, volume_chart, stats_container, pc,
          raw, result, prevStore, lastFetch, nUpdateData, nUpdateCharts,
          nEdits>>

-----------------------------------------------------------------------------
(* Bounds of the model *)

MaxRows == 3

MaxNormRows == 2

MaxAppRows == 1

MaxSeed == 2

MaxTriggers == 2

MaxEdits == 1

-----------------------------------------------------------------------------
(* Python strings and values *)

NaN == 0 - 1

IsNull(v) == v = NaN

S(word) == <<word>>

NoneName == <<"<None>">>

Range(s) == {s[i] : i \in 1..Len(s)}

Contains(s, x) == \E i \in 1..Len(s) : s[i] = x

RECURSIVE JoinStr(_)
JoinStr(parts) ==
    IF Len(parts) = 0 THEN <<>>
    ELSE IF Len(parts) = 1 THEN parts[1]
    ELSE parts[1] \o <<"_">> \o JoinStr(Tail(parts))

RECURSIVE LStrip(_)
LStrip(s) == IF Len(s) > 0 /\ s[1] = " " THEN LStrip(Tail(s)) ELSE s

RECURSIVE RStrip(_)
RStrip(s) ==
    IF Len(s) > 0 /\ s[Len(s)] = " " THEN RStrip(SubSeq(s, 1, Len(s) - 1)) ELSE s

Strip(s) == RStrip(LStrip(s))

RECURSIVE SplitFirst(_)
SplitFirst(s) ==
    IF Len(s) = 0 \/ s[1] = "_" THEN <<>> ELSE <<s[1]>> \o SplitFirst(Tail(s))

SplitFirstWhole(s) == s

-----------------------------------------------------------------------------
(* pandas operations used by get_stock_data *)

RaisedDf == [tag |-> "raise"]

NoneDf == [tag |-> "None"]

IsEmptyDf(df) == Len(df.index) = 0 \/ Len(df.columns) = 0

FlattenColumns(df) ==
    [df EXCEPT !.columns = [i \in 1..Len(df.columns) |-> Strip(JoinStr(df.columns[i]))],
               !.multi = FALSE]

ResetIndexName(df) ==
    IF df.index_name # NoneName THEN df.index_name
    ELSE IF Contains(df.columns, S("index")) THEN S("level_0") ELSE S("index")

ResetIndexNoCheck(df) ==
    [tag |-> "df", multi |-> FALSE, index_name |-> NoneName,
     columns |-> <<ResetIndexName(df)>> \o df.columns,
     index |-> [i \in 1..Len(df.index) |-> i - 1],
     data |-> [i \in 1..Len(df.data) |-> <<df.index[i]>> \o df.data[i]]]

ResetIndex(df) ==
    IF Contains(df.columns, ResetIndexName(df)) THEN RaisedDf
    ELSE ResetIndexNoCheck(df)

RenameColumn(df, old, new) ==
    [df EXCEPT !.columns = [i \in 1..Len(df.columns) |->
                               IF df.columns[i] = old THEN new ELSE df.columns[i]]]

RenameDate(df) ==
    IF Contains(df.columns, S("Date"))
    THEN RenameColumn(df, S("Date"), S("TradeDate"))
    ELSE RenameColumn(df, S("index"), S("TradeDate"))

CollapseWhole(df) ==
    [df EXCEPT !.columns = [i \in 1..Len(df.columns) |-> SplitFirstWhole(df.columns[i])]]

CollapseColumns(df) ==
    [df EXCEPT !.columns = [i \in 1..Len(df.columns) |-> SplitFirst(df.columns[i])]]

required == <<S("TradeDate"), S("Open"), S("High"), S("Low"), S("Close"), S("Volume")>>

HasRequired(columns) == \A i \in 1..Len(required) : Contains(columns, required[i])

(* Lines 70-88: the body of the try block after the download. *)
NormalizeNoEmptyCheck(df) ==
    LET flat == IF df.multi THEN FlattenColumns(df) ELSE df
        reset == ResetIndex(flat)
    IN  IF reset = RaisedDf THEN RaisedDf
        ELSE LET out == CollapseColumns(RenameDate(reset))
             IN  IF ~HasRequired(out.columns) THEN NoneDf ELSE out

Normalize(df) == IF IsEmptyDf(df) THEN NoneDf ELSE NormalizeNoEmptyCheck(df)

(* Lines 61-88 without the except clause: yf.download raised, or gave df. *)
TryBody(fetched) == IF fetched = RaisedDf THEN RaisedDf ELSE Normalize(fetched)

get_stock_data_NoExcept(fetched) == TryBody(fetched)

(* Lines 60-92. *)
get_stock_data(fetched) ==
    LET r == TryBody(fetched) IN IF r = RaisedDf THEN NoneDf ELSE r

-----------------------------------------------------------------------------
(* update_data: lines 95-115 *)

NoneVal == "<None>"

Truthy(v) == v # NoneVal /\ v # ""

NoneStore == [isNone |-> TRUE, records |-> <<>>]

EmptyList == [isNone |-> FALSE, records |-> <<>>]

SelectMessage == "Oberit tiker ta daty"

LoadError == "Pomylka zavantazhennia"

LastPos(columns, c) ==
    CHOOSE j \in 1..Len(columns) :
        columns[j] = c /\ \A k \in (j + 1)..Len(columns) : columns[k] # c

(* df.to_dict('records'): one dict per row; of two columns of one name the
   last one stays. *)
ToDictRecords(df) ==
    [isNone |-> FALSE,
     records |-> [i \in 1..Len(df.data) |->
                     [c \in Range(df.columns) |-> df.data[i][LastPos(df.columns, c)]]]]

(* get_stock_data catches what it raises and to_dict does not raise, so the
   except clause of lines 114-115 has no case. *)
update_data(tk, start, end, fetched) ==
    IF ~(Truthy(tk) /\ Truthy(start) /\ Truthy(end)) THEN <<NoneStore, SelectMessage>>
    ELSE LET df == get_stock_data(fetched)
         IN  IF df = NoneDf THEN <<NoneStore, LoadError>>
             ELSE <<ToDictRecords(df), "">>

-----------------------------------------------------------------------------
(* update_charts: lines 118-169 *)

RECURSIVE Sum(_)
Sum(s) == IF Len(s) = 0 THEN 0 ELSE s[1] + Sum(Tail(s))

RECURSIVE SumSq(_)
SumSq(s) == IF Len(s) = 0 THEN 0 ELSE s[1] * s[1] + SumSq(Tail(s))

RECURSIVE Insert(_, _)
Insert(x, s) ==
    IF Len(s) = 0 \/ x <= s[1] THEN <<x>> \o s ELSE <<s[1]>> \o Insert(x, Tail(s))

RECURSIVE SortValues(_)
SortValues(s) == IF Len(s) = 0 THEN <<>> ELSE Insert(s[1], SortValues(Tail(s)))

RECURSIVE DropNull(_)
DropNull(s) ==
    IF Len(s) = 0 THEN <<>>
    ELSE IF IsNull(s[1]) THEN DropNull(Tail(s)) ELSE <<s[1]>> \o DropNull(Tail(s))

(* num / den rounded to the nearest integer, a half to the even one:
   DataFrame.round(2) on a value in units of 0.01. *)
RoundHalfEven(num, den) ==
    LET q == num \div den
        r2 == 2 * (num % den)
    IN  IF r2 < den THEN q
        ELSE IF r2 > den THEN q + 1
        ELSE IF q % 2 = 0 THEN q ELSE q + 1

(* Series.mean *)
Mean(vals) == RoundHalfEven(Sum(vals), Len(vals))

(* Series.std, ddof = 1: NaN for one value, else the square root of
   (n * sumsq - sum^2) / (n * (n - 1)), rounded. *)
Std(vals) ==
    LET n == Len(vals)
        N == n * SumSq(vals) - Sum(vals) * Sum(vals)
        D == n * (n - 1)
        top == SortValues(vals)[n]
        f == CHOOSE r \in 0..top : r * r * D <= N /\ (r + 1) * (r + 1) * D > N
        half == (2 * f + 1) * (2 * f + 1) * D
    IN  IF n < 2 THEN NaN
        ELSE IF 4 * N < half THEN f
        ELSE IF 4 * N > half THEN f + 1
        ELSE IF f % 2 = 0 THEN f ELSE f + 1

(* Series.quantile(k / 4), linear interpolation between the order statistics. *)
Quantile(vals, k) ==
    LET sorted == SortValues(vals)
        pos4 == (Len(vals) - 1) * k
        lo == pos4 \div 4 + 1
        fr == pos4 % 4
    IN  IF fr = 0 THEN sorted[lo]
        ELSE RoundHalfEven(4 * sorted[lo] + fr * (sorted[lo + 1] - sorted[lo]), 4)

NumericIndex == <<"count", "mean", "std", "min", "25%", "50%", "75%", "max">>

ObjectIndex == <<"count", "unique", "top", "freq">>

(* Series.describe of a numeric column, nulls left out, rounded. *)
DescribeNumeric(column) ==
    LET vals == DropNull(column)
        sorted == SortValues(vals)
    IN  [st \in Range(NumericIndex) |->
            CASE st = "count" -> Len(vals)
              [] st = "mean" -> Mean(vals)
              [] st = "std" -> Std(vals)
              [] st = "min" -> sorted[1]
              [] st = "25%" -> Quantile(vals, 1)
              [] st = "50%" -> Quantile(vals, 2)
              [] st = "75%" -> Quantile(vals, 3)
              [] OTHER -> sorted[Len(sorted)]]

(* Series.describe of a column holding only None (dtype object). *)
DescribeObject(column) ==
    [st \in Range(ObjectIndex) |-> IF st \in {"count", "unique"} THEN 0 ELSE NaN]

ColumnOf(records, c) == [i \in 1..Len(records) |-> records[i][c]]

(* from_records gives a column a numeric dtype when it holds a number. *)
IsNumericColumn(column) == Len(DropNull(column)) > 0

RECURSIVE SelectSeq2(_, _)
SelectSeq2(s, keep) ==
    IF Len(s) = 0 THEN <<>>
    ELSE (IF s[1] \in keep THEN <<s[1]>> ELSE <<>>) \o SelectSeq2(Tail(s), keep)

StatColumnsWithVolume == <<S("Open"), S("High"), S("Low"), S("Close"), S("Volume")>>

(* Line 155: the columns handed to describe. *)
StatColumns == <<S("Open"), S("High"), S("Low"), S("Close")>>

(* DataFrame.describe().round(2): the numeric columns when there is one,
   else every column described as objects. *)
Describe(records) ==
    LET numeric == {c \in Range(StatColumns) : IsNumericColumn(ColumnOf(records, c))}
    IN  IF numeric # {}
        THEN [kind |-> "table", index |-> NumericIndex,
              columns |-> SelectSeq2(StatColumns, numeric),
              cells |-> [c \in numeric |-> DescribeNumeric(ColumnOf(records, c))]]
        ELSE [kind |-> "table", index |-> ObjectIndex,
              columns |-> StatColumns,
              cells |-> [c \in Range(StatColumns) |-> DescribeObject(ColumnOf(records, c))]]

EmptyFigure == <<>>

EmptyOutput == <<EmptyFigure, EmptyFigure, [kind |-> "empty"]>>

Candlestick(records) ==
    <<[type |-> "candlestick",
       x |-> ColumnOf(records, S("TradeDate")),
       open |-> ColumnOf(records, S("Open")),
       high |-> ColumnOf(records, S("High")),
       low |-> ColumnOf(records, S("Low")),
       close |-> ColumnOf(records, S("Close"))]>>

Bar(records) ==
    <<[type |-> "bar",
       x |-> ColumnOf(records, S("TradeDate")),
       y |-> ColumnOf(records, S("Volume"))]>>

(* Lines 129-165, for a non-empty list of records. *)
RenderBody(records) ==
    IF \E i \in 1..Len(required) : required[i] \notin DOMAIN records[1]
    THEN <<EmptyFigure, EmptyFigure, [kind |-> "missing"]>>
    ELSE <<Candlestick(records), Bar(records), Describe(records)>>

(* Without line 125: from_records(None) raises and the except clause answers;
   from_records([]) has no columns. *)
update_charts_NoEmptyCheck(data) ==
    IF data.isNone THEN <<EmptyFigure, EmptyFigure, [kind |-> "error"]>>
    ELSE IF Len(data.records) = 0 THEN <<EmptyFigure, EmptyFigure, [kind |-> "missing"]>>
    ELSE RenderBody(data.records)

update_charts(data) ==
    IF data.isNone \/ Len(data.records) = 0 THEN EmptyOutput
    ELSE RenderBody(data.records)

-----------------------------------------------------------------------------
(* What yf.download can return: the provider's response shapes *)

Day(i) == 100 + i

Cell(field, seed) ==
    IF seed = 0 THEN NaN
    ELSE CASE field = "Open" -> 2 * seed
           [] field = "High" -> 2 * seed + 1
           [] field = "Low" -> 2 * seed - 1
           [] field = "Close" -> 2 * seed
           [] field = "Adj Close" -> 2 * seed - 1
           [] OTHER -> 10 * seed

Fields(variant) ==
    CASE variant = "adj" -> <<"Adj Close", "Close", "High", "Low", "Open", "Volume">>
      [] variant = "five" -> <<"Close", "High", "Low", "Open", "Volume">>
      [] OTHER -> <<"Close", "High", "Low", "Open">>

FieldLabel(kind, field, tk) ==
    CASE kind = "flat" -> S(field)
      [] kind = "composite" -> <<field, "_", tk>>
      [] OTHER -> <<S(field), S(tk)>>

DateLabel(kind, name) == IF kind = "multi" THEN <<S(name), <<>>>> ELSE S(name)

RECURSIVE FieldColumns(_, _, _)
FieldColumns(kind, fields, tickers) ==
    IF Len(tickers) = 0 THEN <<>>
    ELSE [i \in 1..Len(fields) |-> FieldLabel(kind, fields[i], tickers[1])]
         \o FieldColumns(kind, fields, Tail(tickers))

RECURSIVE FieldCells(_, _, _)
FieldCells(fields, tickers, seed) ==
    IF Len(tickers) = 0 THEN <<>>
    ELSE [i \in 1..Len(fields) |-> Cell(fields[i], seed)]
         \o FieldCells(fields, Tail(tickers), seed)

(* A response: kind of column labels, name of the index, name of a date
   column ("" for none), the price fields, the tickers, one seed per row. *)
RawFrame(kind, idxName, dateCol, variant, tickers, seeds) ==
    LET tks == IF kind = "flat" THEN <<"AAPL">> ELSE tickers
        fields == Fields(variant)
    IN  [tag |-> "df",
         multi |-> (kind = "multi"),
         index_name |-> idxName,
         columns |-> (IF dateCol = "" THEN <<>> ELSE <<DateLabel(kind, dateCol)>>)
                     \o FieldColumns(kind, fields, tks),
         index |-> [i \in 1..Len(seeds) |->
                       IF idxName = NoneName THEN i - 1 ELSE Day(i)],
         data |-> [i \in 1..Len(seeds) |->
                      (IF dateCol = "" THEN <<>> ELSE <<Day(i)>>)
                      \o FieldCells(fields, tks, seeds[i])]]

SeedLists(maxLen, maxSeed) == UNION {[1..n -> 0..maxSeed] : n \in 0..maxLen}

Kinds == {"flat", "composite", "multi"}

IndexNames == {NoneName, S("Date"), S("Datetime")}

DateColumns == {"", "Date", "TradeDate", "index"}

Variants == {"adj", "five", "noVolume"}

TickerLists == {<<"AAPL">>, <<"AAPL", "MSFT">>}

RawFrames ==
    {RawFrame(k, n, d, v, t, s) :
        k \in Kinds, n \in IndexNames, d \in DateColumns, v \in Variants,
        t \in TickerLists, s \in SeedLists(MaxNormRows, MaxSeed)}

FetchOutcomes == RawFrames \cup {RaisedDf}

-----------------------------------------------------------------------------
(* get_stock_data on its own: the response is drawn, the function applied *)

Idle ==
    /\ ticker = "AAPL" /\ start_date = "2023-01-01" /\ end_date = "2024-01-01"
    /\ n_clicks = 0 /\ n_intervals = 0
    /\ error_message = ""
    /\ nUpdateData = 0 /\ nUpdateCharts = 0 /\ nEdits = 0
    /\ lastFetch = "none"

InitNormalize ==
    /\ Idle
    /\ raw \in FetchOutcomes
    /\ result = NoneDf
    /\ pc = "get_stock_data"
    /\ store = [isNone |-> TRUE, records |-> <<>>]
    /\ prevStore = [isNone |-> TRUE, records |-> <<>>]
    /\ price_chart = <<>> /\ volume_chart = <<>>
    /\ stats_container = [kind |-> "empty"]

GetStockData ==
    /\ pc = "get_stock_data"
    /\ result' = get_stock_data(raw)
    /\ pc' = "returned"
    /\ UNCHANGED <<ticker, start_date, end_date, n_clicks, n_intervals, store,
                   error_message, price_chart, volume_chart, stats_container,
                   raw, prevStore, lastFetch, nUpdateData, nUpdateCharts, nEdits>>

NextNormalize == GetStockData

SpecNormalize == InitNormalize /\ [][NextNormalize]_vars

-----------------------------------------------------------------------------
(* The application: the callbacks as Dash wires them.  update_data has the
   Inputs n_clicks and n_intervals and reads ticker and dates as State; it is
   also called once when the page loads.  update_charts has the Input
   'data-store'.data, so it runs after every update_data.  One trigger is
   handled at a time. *)

AppKinds == {"flat", "multi"}

AppVariants == {"adj", "noVolume"}

AppSeeds == SeedLists(MaxAppRows, 1)

(* yf.download(tickers=tk, ..., auto_adjust=False) for one ticker: it raises,
   or gives a frame indexed by Date whose columns are the fields (Adj Close
   among them) or (field, ticker) pairs; a malformed one lacks Volume. *)
Download(tk) ==
    {RaisedDf} \cup
    {RawFrame(k, S("Date"), "", v, <<tk>>, s) :
        k \in AppKinds, v \in AppVariants, s \in AppSeeds}

FetchClass(tk, start, end, fetched) ==
    IF ~(Truthy(tk) /\ Truthy(start) /\ Truthy(end)) THEN "missing_input"
    ELSE IF fetched = RaisedDf THEN "raise"
    ELSE IF IsEmptyDf(fetched) THEN "empty"
    ELSE IF get_stock_data(fetched) = NoneDf THEN "schema"
    ELSE "ok"

Tickers == {"AAPL", "MSFT", NoneVal}

StartDates == {"2023-01-01", NoneVal}

EndDates == {"2024-01-01", NoneVal}

Init ==
    /\ ticker = "AAPL" /\ start_date = "2023-01-01" /\ end_date = "2024-01-01"
    /\ n_clicks = 0 /\ n_intervals = 0
    /\ store = NoneStore /\ prevStore = NoneStore
    /\ error_message = ""
    /\ price_chart = EmptyFigure /\ volume_chart = EmptyFigure
    /\ stats_container = [kind |-> "empty"]
    /\ pc = "update_data"
    /\ raw = NoneDf /\ result = NoneDf
    /\ lastFetch = "none"
    /\ nUpdateData = 0 /\ nUpdateCharts = 0 /\ nEdits = 0

SelectTicker_AsInput ==
    /\ pc = "idle" /\ nEdits < MaxEdits
    /\ \E t \in Tickers \ {ticker} : ticker' = t
    /\ nEdits' = nEdits + 1
    /\ pc' = "update_data"
    /\ UNCHANGED <<start_date, end_date, n_clicks, n_intervals, store,
                   error_message, price_chart, volume_chart, stats_container,
                   raw, result, prevStore, lastFetch, nUpdateData, nUpdateCharts>>

(* The dropdown's value is a State of update_data: changing it calls nothing. *)
SelectTicker ==
    /\ pc = "idle" /\ nEdits < MaxEdits
    /\ \E t \in Tickers \ {ticker} : ticker' = t
    /\ nEdits' = nEdits + 1
    /\ UNCHANGED <<start_date, end_date, n_clicks, n_intervals, store,
                   error_message, price_chart, volume_chart, stats_container, pc,
                   raw, result, prevStore, lastFetch, nUpdateData, nUpdateCharts>>

(* The date picker's dates are States of update_data. *)
SelectDates ==
    /\ pc = "idle" /\ nEdits < MaxEdits
    /\ \E sd \in StartDates, ed \in EndDates :
          /\ <<sd, ed>> # <<start_date, end_date>>
          /\ start_date' = sd /\ end_date' = ed
    /\ nEdits' = nEdits + 1
    /\ UNCHANGED <<ticker, n_clicks, n_intervals, store,
                   error_message, price_chart, volume_chart, stats_container, pc,
                   raw, result, prevStore, lastFetch, nUpdateData, nUpdateCharts>>

(* A click on 'refresh-button': n_clicks is an Input of update_data. *)
RefreshClick ==
    /\ pc = "idle" /\ n_clicks + n_intervals < MaxTriggers
    /\ n_clicks' = n_clicks + 1
    /\ pc' = "update_data"
    /\ UNCHANGED <<ticker, start_date, end_date, n_intervals, store,
                   error_message, price_chart, volume_chart, stats_container,
                   raw, result, prevStore, lastFetch, nUpdateData, nUpdateCharts,
                   nEdits>>

(* A tick of 'auto-refresh': n_intervals is an Input of update_data. *)
TimerTick ==
    /\ pc = "idle" /\ n_clicks + n_intervals < MaxTriggers
    /\ n_intervals' = n_intervals + 1
    /\ pc' = "update_data"
    /\ UNCHANGED <<ticker, start_date, end_date, n_clicks, store,
                   error_message, price_chart, volume_chart, stats_container,
                   raw, result, prevStore, lastFetch, nUpdateData, nUpdateCharts,
                   nEdits>>

UpdateData_KeepOnFailure ==
    /\ pc = "update_data"
    /\ \E fetched \in Download(ticker) :
          LET out == update_data(ticker, start_date, end_date, fetched)
          IN  /\ store' = IF out[1].isNone THEN store ELSE out[1]
              /\ error_message' = out[2]
              /\ lastFetch' = FetchClass(ticker, start_date, end_date, fetched)
    /\ prevStore' = store
    /\ nUpdateData' = nUpdateData + 1
    /\ pc' = "update_charts"
    /\ UNCHANGED <<ticker, start_date, end_date, n_clicks, n_intervals,
                   price_chart, volume_chart, stats_container,
                   raw, result, nUpdateCharts, nEdits>>

(* update_data runs: its two return values are written to 'data-store'.data
   and 'error-message'.children, and the store's write calls update_charts. *)
UpdateData ==
    /\ pc = "update_data"
    /\ \E fetched \in Download(ticker) :
          LET out == update_data(ticker, start_date, end_date, fetched)
          IN  /\ store' = out[1]
              /\ error_message' = out[2]
              /\ lastFetch' = FetchClass(ticker, start_date, end_date, fetched)
    /\ prevStore' = store
    /\ nUpdateData' = nUpdateData + 1
    /\ pc' = "update_charts"
    /\ UNCHANGED <<ticker, start_date, end_date, n_clicks, n_intervals,
                   price_chart, volume_chart, stats_container,
                   raw, result, nUpdateCharts, nEdits>>

(* update_charts runs on the store's data and writes the three outputs. *)
UpdateCharts ==
    /\ pc = "update_charts"
    /\ LET out == update_charts(store)
       IN  /\ price_chart' = out[1]
           /\ volume_chart' = out[2]
           /\ stats_container' = out[3]
    /\ nUpdateCharts' = nUpdateCharts + 1
    /\ pc' = "idle"
    /\ UNCHANGED <<ticker, start_date, end_date, n_clicks, n_intervals, store,
                   error_message, raw, result, prevStore, lastFetch,
                   nUpdateData, nEdits>>

Next ==
    \/ SelectTicker
    \/ SelectDates
    \/ RefreshClick
    \/ TimerTick
    \/ UpdateData
    \/ UpdateCharts

Spec == Init /\ [][Next]_vars

-----------------------------------------------------------------------------
(* update_charts on its own: the stored data is drawn, the callback applied *)

ChartFrames ==
    {RawFrame(k, S("Date"), "", v, <<"AAPL">>, s) :
        k \in AppKinds, v \in {"adj", "five"}, s \in SeedLists(MaxRows, MaxSeed)}

ChartStores ==
    {NoneStore, EmptyList} \cup
    {update_data("AAPL", "2023-01-01", "2024-01-01", f)[1] : f \in ChartFrames}

InitCharts ==
    /\ Idle
    /\ store \in ChartStores
    /\ prevStore = NoneStore
    /\ price_chart = EmptyFigure /\ volume_chart = EmptyFigure
    /\ stats_container = [kind |-> "empty"]
    /\ pc = "update_charts"
    /\ raw = NoneDf /\ result = NoneDf

NextCharts == UpdateCharts

SpecCharts == InitCharts /\ [][NextCharts]_vars

-----------------------------------------------------------------------------
(* Claims about get_stock_data, checked under SpecNormalize *)

Returned == pc = "returned"

Fetched == raw # RaisedDf

(* The labels as reset_index sees them. *)
FlatLabels(df) == IF df.multi THEN FlattenColumns(df).columns ELSE df.columns

(* reset_index cannot insert the index: a column of its name exists. *)
TransformRaises(df) ==
    Contains(FlatLabels(df), ResetIndexName([df EXCEPT !.columns = FlatLabels(df)]))

(* The labels after the index is exposed, the date renamed, the labels collapsed. *)
FinalLabels(df) ==
    CollapseColumns(RenameDate(ResetIndexNoCheck(
        [df EXCEPT !.columns = FlatLabels(df), !.multi = FALSE]))).columns

(* C1: get_stock_data never raises, and returns None when the download
   raises, when the dataset has no rows, when the transform raises and when
   the final labels lack one of the six required columns. *)
C1_NormalizeReturnsNoData ==
    Returned =>
        /\ result.tag \in {"None", "df"}
        /\ ~Fetched => result = NoneDf
        /\ (Fetched /\ Len(raw.index) = 0) => result = NoneDf
        /\ (Fetched /\ TransformRaises(raw)) => result = NoneDf
        /\ (Fetched /\ \E i \in 1..Len(required) :
                          ~Contains(FinalLabels(raw), required[i])) => result = NoneDf

C1_Witness ==
    /\ Returned /\ Fetched /\ Len(raw.index) > 0
    /\ ~TransformRaises(raw)
    /\ Contains(FinalLabels(raw), S("TradeDate"))
    /\ ~Contains(FinalLabels(raw), S("Volume"))
    /\ result = NoneDf

(* C2: a returned table has exactly the six required columns, none added
   and none twice. *)
C2_ExactlySixColumns ==
    (Returned /\ result.tag = "df") =>
        /\ Len(result.columns) = Len(required)
        /\ Range(result.columns) = Range(required)

IsCanonical(df) ==
    /\ df.tag = "df" /\ ~df.multi
    /\ Len(df.columns) = Len(required)
    /\ Range(df.columns) = Range(required)

(* C3: the normalization steps applied to a table with rows whose columns are
   already the six required ones return an equal table. *)
C3_Idempotent ==
    (Returned /\ Fetched /\ IsCanonical(raw) /\ Len(raw.index) > 0) =>
        /\ result.tag = "df"
        /\ result.columns = raw.columns
        /\ result.data = raw.data

IsCompositeLabel(df, j) == df.multi \/ Contains(df.columns[j], "_")

FieldToken(df, j) == IF df.multi THEN df.columns[j][1] ELSE <<df.columns[j][1]>>

(* Every label pairs a field with a ticker. *)
AllFieldLabels(df) ==
    \A j \in 1..Len(df.columns) :
        IF df.multi THEN df.columns[j][2] # <<>> ELSE Contains(df.columns[j], "_")

HasField(df, field) ==
    \E j \in 1..Len(df.columns) : FieldToken(df, j) = S(field)

(* C8: for a dataset with composite labels a returned table has the rows of
   the dataset, in order and with their values (the exposed index first),
   every composite label became its field token and Date became TradeDate;
   and a table is returned when the dataset has rows, its labels pair the
   five fields with tickers and its index holds the dates. *)
C8_CompositeCollapsed ==
    (Returned /\ Fetched /\ \E j \in 1..Len(raw.columns) : IsCompositeLabel(raw, j)) =>
        /\ result.tag = "df" =>
              /\ Len(result.data) = Len(raw.data)
              /\ Len(result.columns) = Len(raw.columns) + 1
              /\ \A i \in 1..Len(raw.data) :
                    result.data[i] = <<raw.index[i]>> \o raw.data[i]
              /\ \A j \in 1..Len(raw.columns) :
                    IsCompositeLabel(raw, j) => result.columns[j + 1] = FieldToken(raw, j)
              /\ \A j \in 1..Len(raw.columns) :
                    (~raw.multi /\ raw.columns[j] = S("Date"))
                        => result.columns[j + 1] = S("TradeDate")
              /\ raw.index_name = S("Date") => result.columns[1] = S("TradeDate")
        /\ ( /\ Len(raw.index) > 0
             /\ AllFieldLabels(raw)
             /\ raw.index_name \in {S("Date"), NoneName}
             /\ \A i \in 2..Len(required) : HasField(raw, required[i][1]) )
              => result.tag = "df"

C8_Witness ==
    /\ Returned /\ Fetched /\ result.tag = "df"
    /\ raw.multi /\ raw.index_name = S("Date")
    /\ Len(result.data) = 2
    /\ raw.columns[1] = <<S("Close"), S("AAPL")>>
    /\ result.columns = <<S("TradeDate"), S("Close"), S("High"), S("Low"), S("Open"), S("Volume")>>
    /\ result.data[2] = <<Day(2), 4, 5, 3, 4, 20>>

-----------------------------------------------------------------------------
(* Claims about the callbacks, checked under Spec *)

FetchFailed == lastFetch \in {"empty", "schema", "raise"}

(* C4, as claimed: after a failed fetch an error is shown and the store
   still holds what it held before the fetch. *)
C4_FailureKeepsPriorTable ==
    FetchFailed => (error_message # "" /\ store = prevStore)

(* C4, amended: after a failed fetch the loading error is shown and the
   store is absent, whatever it held before. *)
C4_FailureClearsStore ==
    FetchFailed => (error_message = LoadError /\ store = NoneStore)

C4_Witness ==
    /\ FetchFailed /\ pc = "update_charts"
    /\ ~prevStore.isNone /\ Len(prevStore.records) > 0
    /\ store = NoneStore /\ error_message = LoadError

(* C5, as claimed: every ticker change, date change, refresh click and timer
   tick (and the page load) has run update_data once and update_charts once
   when the application is idle again. *)
C5_EveryActionTriggers ==
    pc = "idle" =>
        /\ nUpdateData = 1 + n_clicks + n_intervals + nEdits
        /\ nUpdateCharts = nUpdateData

(* C5, amended: every refresh click and timer tick (and the page load) runs
   update_data once and then update_charts once, the render after the store
   write of its trigger; a ticker or date change runs neither. *)
C5_ClickAndTickTrigger ==
    /\ nUpdateCharts <= nUpdateData
    /\ pc = "update_data" =>
          (nUpdateData = n_clicks + n_intervals /\ nUpdateCharts = nUpdateData)
    /\ pc = "update_charts" =>
          (nUpdateData = 1 + n_clicks + n_intervals /\ nUpdateCharts = nUpdateData - 1)
    /\ pc = "idle" =>
          (nUpdateData = 1 + n_clicks + n_intervals /\ nUpdateCharts = nUpdateData)

C5_Witness ==
    /\ pc = "idle" /\ n_clicks = 1 /\ n_intervals = 1 /\ nEdits = 1
    /\ nUpdateData = 3 /\ nUpdateCharts = 3

(* C6: the store is absent, or every row of it has the six fields, none of
   them null. *)
C6_StoreRowsComplete ==
    store.isNone \/
    \A i \in 1..Len(store.records) : \A j \in 1..Len(required) :
        /\ required[j] \in DOMAIN store.records[i]
        /\ ~IsNull(store.records[i][required[j]])

(* C7: an empty fetch stores nothing and shows the loading error, the render
   that follows gives two empty figures and no statistics, and so does every
   render of an absent store or an empty list. *)
C7_EmptyFetchRendersEmpty ==
    /\ lastFetch = "empty" => (store = NoneStore /\ error_message = LoadError)
    /\ (lastFetch = "empty" /\ pc = "idle") =>
          <<price_chart, volume_chart, stats_container>> = EmptyOutput
    /\ update_charts(NoneStore) = EmptyOutput
    /\ update_charts(EmptyList) = EmptyOutput

C7_Witness ==
    /\ lastFetch = "empty" /\ pc = "idle"
    /\ ~prevStore.isNone /\ Len(prevStore.records) > 0
    /\ nUpdateCharts = 2
    /\ store = NoneStore
    /\ <<price_chart, volume_chart, stats_container>> = EmptyOutput

-----------------------------------------------------------------------------
(* Claims about the statistics, checked under SpecCharts *)

(* A stored table of the canonical shape: rows, and no null in a required field. *)
CanonicalStore ==
    /\ ~store.isNone /\ Len(store.records) > 0
    /\ \A i \in 1..Len(store.records) : \A j \in 1..Len(required) :
          /\ required[j] \in DOMAIN store.records[i]
          /\ ~IsNull(store.records[i][required[j]])

Rendered == pc = "idle" /\ nUpdateCharts > 0

StatsShape ==
    /\ stats_container.kind = "table"
    /\ stats_container.columns = <<S("Open"), S("High"), S("Low"), S("Close")>>
    /\ DOMAIN stats_container.cells = {S("Open"), S("High"), S("Low"), S("Close")}
    /\ stats_container.index = <<"count", "mean", "std", "min", "25%", "50%", "75%", "max">>
    /\ \A c \in DOMAIN stats_container.cells :
          DOMAIN stats_container.cells[c] = Range(stats_container.index)

StatsOrdered ==
    \A c \in DOMAIN stats_container.cells :
        LET st == stats_container.cells[c]
        IN  /\ st["min"] <= st["25%"] /\ st["25%"] <= st["50%"]
            /\ st["50%"] <= st["75%"] /\ st["75%"] <= st["max"]

(* C9, as claimed: for a non-empty canonical table the statistics are the 8
   statistics of the 4 price columns, all 32 of them numbers, the quartiles
   in order between min and max. *)
C9_StatsAllNumbers ==
    (Rendered /\ CanonicalStore) =>
        /\ StatsShape
        /\ \A c \in DOMAIN stats_container.cells : \A st \in Range(NumericIndex) :
              ~IsNull(stats_container.cells[c][st])
        /\ StatsOrdered

(* C9, amended: the same, but std is NaN when the table has a single row
   (and a number otherwise). *)
C9_StatsNumbersButStdOfOne ==
    (Rendered /\ CanonicalStore) =>
        /\ StatsShape
        /\ \A c \in DOMAIN stats_container.cells : \A st \in Range(NumericIndex) :
              IsNull(stats_container.cells[c][st])
                  <=> (st = "std" /\ Len(store.records) = 1)
        /\ \A c \in DOMAIN stats_container.cells :
              stats_container.cells[c]["count"] = Len(store.records)
        /\ StatsOrdered

C9_Witness ==
    /\ Rendered /\ CanonicalStore
    /\ Len(store.records) = 3
    /\ S("Adj Close") \in DOMAIN store.records[1]
    /\ stats_container.kind = "table"
    /\ stats_container.cells[S("Open")] =
          [st \in Range(NumericIndex) |->
              CASE st = "count" -> 3 [] st = "mean" -> 3 [] st = "std" -> 1
                [] st = "min" -> 2 [] st = "25%" -> 3 [] st = "50%" -> 4
                [] st = "75%" -> 4 [] OTHER -> 4]

=============================================================================
